---- MODULE Spec2Model ----
(***************************************************************************)
(* ALX Polly: the poll server actions (createPoll, submitVote, deletePoll, *)
(* updatePoll of app/lib/actions/poll-actions, kept in src/README.md) run  *)
(* by concurrent requests against one store of polls and votes, and the    *)
(* middleware (src/middleware.ts) that adds the security headers.          *)
(*                                                                         *)
(* A string is a sequence of one-character strings.  An optional value     *)
(* (null / undefined in the source) is a sequence of length 0 or 1.        *)
(***************************************************************************)
EXTENDS Integers, Sequences, FiniteSets, Bags, TLC

VARIABLES polls, votes, nextPollId, adminEnv, req, started

vars == <<polls, votes, nextPollId, adminEnv, req, started>>

----------------------------------------------------------------------------
(* Bounds of the model *)

\* polls the store ever creates
MaxPolls == 1
\* requests ever started in one behaviour
MaxRequests == 2

----------------------------------------------------------------------------
(* Optional values and strings *)

None == <<>>
Some(x) == <<x>>

Repeat(c, n) == [i \in 1..n |-> c]

RECURSIVE FlattenRange(_, _, _)
FlattenRange(ss, lo, hi) ==
  IF lo > hi THEN <<>>
  ELSE IF lo = hi THEN ss[lo]
  ELSE LET mid == (lo + hi) \div 2
       IN  FlattenRange(ss, lo, mid) \o FlattenRange(ss, mid + 1, hi)

\* String.prototype.replace with a global one-character pattern
ReplaceAll(s, c, r) ==
  FlattenRange([i \in 1..Len(s) |-> IF s[i] = c THEN r ELSE <<s[i]>>], 1, Len(s))

IsSpace(c) == c \in {" ", "\t", "\n"}

\* String.prototype.trim
Trim(s) ==
  LET keep == {i \in 1..Len(s) : ~IsSpace(s[i])}
  IN  IF keep = {} THEN <<>>
      ELSE SubSeq(s, CHOOSE i \in keep : \A j \in keep : i <= j,
                     CHOOSE i \in keep : \A j \in keep : i >= j)

----------------------------------------------------------------------------
(* Input validation schemas *)

QuestionMax == 500
OptionMax == 200
OptionsMin == 2
OptionsMax == 10

\* z.string().min(1, ...).max(500, ...).trim() on formData.get("question"),
\* which is null when the field is absent: the issues, in zod's order
QuestionIssues(q) ==
  IF q = None THEN <<"Expected string, received null">>
  ELSE (IF Len(q[1]) < 1 THEN <<"Question is required">> ELSE <<>>)
       \o (IF Len(q[1]) > QuestionMax
           THEN <<"Question must be less than 500 characters">> ELSE <<>>)

\* z.string().min(1).max(200).trim() on one option
OptionIssues(o) ==
  (IF Len(o) < 1 THEN <<"String must contain at least 1 character(s)">> ELSE <<>>)
  \o (IF Len(o) > OptionMax
      THEN <<"String must contain at most 200 character(s)">> ELSE <<>>)

\* The upper limit on the number of options left out
OptionsIssuesNoMax(opts) ==
  (IF Len(opts) < OptionsMin THEN <<"At least 2 options are required">> ELSE <<>>)
  \o FlattenRange([i \in 1..Len(opts) |-> OptionIssues(opts[i])], 1, Len(opts))

\* z.array(...).min(2, ...).max(10, ...): the array's own issues come before
\* its elements'
OptionsIssues(opts) ==
  (IF Len(opts) < OptionsMin THEN <<"At least 2 options are required">> ELSE <<>>)
  \o (IF Len(opts) > OptionsMax THEN <<"Maximum 10 options allowed">> ELSE <<>>)
  \o FlattenRange([i \in 1..Len(opts) |-> OptionIssues(opts[i])], 1, Len(opts))

\* pollSchema.safeParse: the issues (question's first, as in the object's
\* shape) and, when there are none, the parsed data with .trim() applied
pollSchemaIssues(q, opts) == QuestionIssues(q) \o OptionsIssues(opts)

pollSchemaData(q, opts) ==
  [question |-> Trim(q[1]), options |-> [i \in 1..Len(opts) |-> Trim(opts[i])]]

\* A sanitizer that escapes the ampersand as well
sanitizeHtmlAmpersand(input) ==
  ReplaceAll(
    ReplaceAll(
      ReplaceAll(
        ReplaceAll(
          ReplaceAll(
            ReplaceAll(input, "&", <<"&", "a", "m", "p", ";">>),
            "<", <<"&", "l", "t", ";">>),
          ">", <<"&", "g", "t", ";">>),
        "\"", <<"&", "q", "u", "o", "t", ";">>),
      "'", <<"&", "#", "x", "2", "7", ";">>),
    "/", <<"&", "#", "x", "2", "F", ";">>)

\* Sanitize HTML to prevent XSS
sanitizeHtml(input) ==
  ReplaceAll(
    ReplaceAll(
      ReplaceAll(
        ReplaceAll(
          ReplaceAll(input, "<", <<"&", "l", "t", ";">>),
          ">", <<"&", "g", "t", ";">>),
        "\"", <<"&", "q", "u", "o", "t", ";">>),
      "'", <<"&", "#", "x", "2", "7", ";">>),
    "/", <<"&", "#", "x", "2", "F", ";">>)

\* formData.getAll("options").filter(Boolean): the empty strings are dropped
FilterBoolean(opts) == SelectSeq(opts, LAMBDA o : o # <<>>)

\* A poll id as a request passes it: a well-formed UUID naming the n-th id
\* the store generates, or text that is no UUID
Uuid(n) == [uuid |-> TRUE, n |-> n]
NotAUuid == [uuid |-> FALSE, n |-> 0]

\* The issues of the option index put before the poll id's
voteSchemaIssuesIndexFirst(pollId, optionIndex) ==
  (IF optionIndex < 0
   THEN <<"Number must be greater than or equal to 0">> ELSE <<>>)
  \o (IF ~pollId.uuid THEN <<"Invalid poll ID">> ELSE <<>>)

\* voteSchema.safeParse: pollId z.string().uuid(...), optionIndex
\* z.number().int().min(0)
voteSchemaIssues(pollId, optionIndex) ==
  (IF ~pollId.uuid THEN <<"Invalid poll ID">> ELSE <<>>)
  \o (IF optionIndex < 0
      THEN <<"Number must be greater than or equal to 0">> ELSE <<>>)

----------------------------------------------------------------------------
(* Identities, sessions and configuration *)

AdminExampleCom ==
  <<"a","d","m","i","n","@","e","x","a","m","p","l","e",".","c","o","m">>
AdminAlxPollyCom ==
  <<"a","d","m","i","n","@","a","l","x","-","p","o","l","l","y",".","c","o","m">>
AliceEmail == <<"a", "@", "x">>

Alice == [id |-> "u1", email |-> Some(AliceEmail)]
Bob == [id |-> "u2", email |-> None]
Root == [id |-> "u3", email |-> Some(AdminExampleCom)]

NoError == "null"
SessionErrorMessage == "session lookup failed"
StoreErrorMessage == "store error"

\* What supabase.auth.getUser() can resolve to: { data: { user }, error }
SessionOf(u) == [user |-> Some(u), error |-> NoError]
Anonymous == [user |-> None, error |-> NoError]
SessionFailure == [user |-> None, error |-> SessionErrorMessage]
Sessions == {SessionOf(Alice), SessionOf(Bob), SessionOf(Root), Anonymous, SessionFailure}

\* String.prototype.split(",")
RECURSIVE Split(_)
Split(s) ==
  LET commas == {i \in 1..Len(s) : s[i] = ","}
  IN  IF commas = {} THEN <<s>>
      ELSE LET k == CHOOSE i \in commas : \A j \in commas : i <= j
           IN  <<SubSeq(s, 1, k - 1)>> \o Split(SubSeq(s, k + 1, Len(s)))

\* process.env.ADMIN_EMAILS?.split(",") || [fallback pair]
ADMIN_EMAILS(env) ==
  IF env = None THEN <<AdminExampleCom, AdminAlxPollyCom>> ELSE Split(env[1])

\* No administrator override
isAdminNever(env, user) == FALSE

\* ADMIN_EMAILS.includes(user.email || "")
isAdmin(env, user) ==
  LET list == ADMIN_EMAILS(env)
      email == IF user.email = None THEN <<>> ELSE user.email[1]
  IN  \E i \in 1..Len(list) : list[i] = email

\* The values of the ADMIN_EMAILS environment variable: unset, empty, one
\* address, a list with an empty entry
EnvValues ==
  {None, Some(<<>>), Some(AliceEmail), Some(AdminExampleCom \o <<",">>)}

----------------------------------------------------------------------------
(* The store and the requests in flight *)

Reqs == {1, 2}

\* How a call to the store ends: it is carried out, or it fails with the
\* store's own error and changes nothing
Outcomes == {"ok", "fail"}

NoForm == [question |-> None, options |-> <<>>]
NoData == [question |-> <<>>, options |-> <<>>]

Idle ==
  [op |-> "none", pc |-> "idle", pollId |-> NotAUuid, optionIndex |-> 0,
   form |-> NoForm, data |-> NoData, user |-> None, poll |-> None,
   session |-> Anonymous, before |-> None, hadVote |-> FALSE, calls |-> <<>>,
   failed |-> {},
   wrote |-> FALSE, revalidated |-> FALSE, error |-> NoError,
   path |-> <<>>, headers |-> <<>>]

\* The poll row an id names, as an optional value
PollRow(id) == IF id.uuid /\ id.n \in DOMAIN polls THEN Some(polls[id.n]) ELSE None

\* The voter left out of the row
VoteRowNullVoter(id, user, optionIndex) ==
  [poll_id |-> id.n, user_id |-> None, option_index |-> optionIndex]

\* { poll_id: pollId, user_id: user?.id ?? null, option_index: optionIndex }
VoteRow(id, user, optionIndex) ==
  [poll_id |-> id.n,
   user_id |-> IF user = None THEN None ELSE Some(user[1].id),
   option_index |-> optionIndex]

\* The vote rows of one voter on one poll
VotesOf(n, uid) ==
  {v \in BagToSet(votes) : v.poll_id = n /\ v.user_id = Some(uid)}

VoteCount(n, uid) ==
  LET rows == VotesOf(n, uid)
      RECURSIVE Sum(_)
      Sum(S) == IF S = {} THEN 0
                ELSE LET v == CHOOSE x \in S : TRUE
                     IN  CopiesIn(v, votes) + Sum(S \ {v})
  IN  Sum(rows)

\* A store without the constraint
UniqueViolationNone(row) == FALSE

\* A constraint under which null voters equal one another
UniqueViolationNullsEqual(row) ==
  \E v \in BagToSet(votes) : v.poll_id = row.poll_id /\ v.user_id = row.user_id

\* The store's uniqueness constraint on votes (poll_id, user_id): a row with a
\* non-null voter is refused when the pair already has a row
UniqueViolation(row) ==
  row.user_id # None /\ VoteCount(row.poll_id, row.user_id[1]) > 0

\* A request may begin: a free slot (the lowest one), within the bound
MayBegin(r) ==
  /\ req[r].pc = "idle"
  /\ \A q \in Reqs : q < r => req[q].pc # "idle"
  /\ started < MaxRequests

Begun(r, op, rec) ==
  /\ req' = [req EXCEPT ![r] = [rec EXCEPT !.op = op]]
  /\ started' = started + 1

\* return { error }
Return(rec, error) == [rec EXCEPT !.pc = "done", !.error = error]

\* The poll createPoll stores for a form that passes validation
CreatedPoll(uid, form) ==
  LET valid == pollSchemaData(form.question, FilterBoolean(form.options))
  IN  [user_id |-> uid, question |-> sanitizeHtml(valid.question),
       options |-> [i \in 1..Len(valid.options) |-> sanitizeHtml(valid.options[i])]]

\* The store as a deployment finds it: empty, or holding a poll that an
\* earlier createPoll of Alice's stored
InitOver(envs, stores) ==
  /\ polls \in stores
  /\ votes = EmptyBag
  /\ nextPollId = Len(polls) + 1
  /\ adminEnv \in envs
  /\ req = [r \in Reqs |-> Idle]
  /\ started = 0

----------------------------------------------------------------------------
(* CREATE POLL *)

\* The message of another action pasted in
CreateLoginRequiredPasted == "You must be logged in to update a poll."

CreateLoginRequired == "You must be logged in to create a poll."

\* createPoll up to the insert it issues: validation, sanitization, session
CreatePollBegin(r, form, session) ==
  /\ MayBegin(r)
  /\ nextPollId + Cardinality({q \in Reqs : req[q].pc = "insertPoll"}) <= MaxPolls
  /\ LET rawOptions == FilterBoolean(form.options)
         issues == pollSchemaIssues(form.question, rawOptions)
         valid == pollSchemaData(form.question, rawOptions)
         sanitized == [question |-> sanitizeHtml(valid.question),
                       options |-> [i \in 1..Len(valid.options) |->
                                      sanitizeHtml(valid.options[i])]]
         rec == [Idle EXCEPT !.form = form, !.session = session]
         asked == [rec EXCEPT !.calls = <<"auth.getUser">>, !.user = session.user]
     IN  Begun(r, "createPoll",
           IF issues # <<>> THEN Return(rec, issues[1])
           ELSE IF session.error # NoError THEN Return(asked, session.error)
           ELSE IF session.user = None
             THEN Return(asked, CreateLoginRequired)
           ELSE [asked EXCEPT !.pc = "insertPoll", !.data = sanitized])
  /\ UNCHANGED <<polls, votes, nextPollId, adminEnv>>

\* A row that does not carry the creating user's id
InsertedPollNoOwner(user, data) ==
  [user_id |-> "nobody", question |-> data.question, options |-> data.options]

\* { user_id: user.id, question: sanitizedQuestion, options: sanitizedOptions }
InsertedPoll(user, data) ==
  [user_id |-> user.id, question |-> data.question, options |-> data.options]

\* supabase.from("polls").insert([...]) and the rest of createPoll
CreatePollInsert(r, outcome) ==
  /\ req[r].pc = "insertPoll"
  /\ LET rec == [req[r] EXCEPT !.calls = Append(@, "polls.insert"),
                               !.failed = IF outcome = "fail" THEN {"polls.insert"} ELSE {}]
         row == InsertedPoll(rec.user[1], rec.data)
     IN  IF outcome = "fail"
         THEN /\ req' = [req EXCEPT ![r] = Return(rec, StoreErrorMessage)]
              /\ UNCHANGED <<polls, nextPollId>>
         ELSE /\ polls' = (nextPollId :> row) @@ polls
              /\ nextPollId' = nextPollId + 1
              /\ req' = [req EXCEPT ![r] =
                   Return([rec EXCEPT !.wrote = TRUE, !.revalidated = TRUE,
                                      !.pollId = Uuid(nextPollId)], NoError)]
  /\ UNCHANGED <<votes, adminEnv, started>>

\* The caller has the result; the slot is free again
Respond(r) ==
  /\ req[r].pc = "done"
  /\ req' = [req EXCEPT ![r] = Idle]
  /\ UNCHANGED <<polls, votes, nextPollId, adminEnv, started>>

----------------------------------------------------------------------------
(* SUBMIT VOTE *)

AlreadyVoted == "You have already voted on this poll."

\* The upper limit off by one: optionIndex > poll.options.length
OptionIndexInvalidOffByOne(optionIndex, options) ==
  optionIndex < 0 \/ optionIndex > Len(options)

\* optionIndex < 0 || optionIndex >= poll.options.length
OptionIndexInvalid(optionIndex, options) ==
  optionIndex < 0 \/ optionIndex >= Len(options)

\* submitVote up to its first read of the store: validation, then the
\* session, whose error is not looked at
SubmitVoteBegin(r, pollId, optionIndex, session) ==
  /\ MayBegin(r)
  /\ LET issues == voteSchemaIssues(pollId, optionIndex)
         rec == [Idle EXCEPT !.pollId = pollId, !.optionIndex = optionIndex,
                             !.session = session, !.before = PollRow(pollId)]
         asked == [rec EXCEPT
                     !.calls = <<"auth.getUser">>, !.user = session.user,
                     !.hadVote = /\ session.user # None
                                 /\ VoteCount(pollId.n, session.user[1].id) > 0]
     IN  Begun(r, "submitVote",
           IF issues # <<>> THEN Return(rec, issues[1])
           ELSE [asked EXCEPT !.pc = "selectPoll"])
  /\ UNCHANGED <<polls, votes, nextPollId, adminEnv>>

\* Validate poll exists, validate option index
SubmitVoteSelectPoll(r, outcome) ==
  /\ req[r].pc = "selectPoll"
  /\ LET rec == [req[r] EXCEPT !.calls = Append(@, "polls.select"),
                               !.failed = IF outcome = "fail" THEN {"polls.select"} ELSE {}]
         poll == IF outcome = "fail" THEN None ELSE PollRow(rec.pollId)
         seen == [rec EXCEPT !.poll = poll]
     IN  req' = [req EXCEPT ![r] =
           IF poll = None THEN Return(seen, "Poll not found.")
           ELSE IF OptionIndexInvalid(rec.optionIndex, poll[1].options)
             THEN Return(seen, "Invalid option selected.")
           ELSE IF rec.user # None THEN [seen EXCEPT !.pc = "selectVote"]
           ELSE [seen EXCEPT !.pc = "insertVote"]]
  /\ UNCHANGED <<polls, votes, nextPollId, adminEnv, started>>

\* Check if user has already voted (for authenticated users): .single()
\* gives data only when exactly one row matches and the read does not fail
SubmitVoteSelectVote(r, outcome) ==
  /\ req[r].pc = "selectVote"
  /\ LET rec == [req[r] EXCEPT !.calls = Append(@, "votes.select"),
                               !.failed = IF outcome = "fail" THEN @ \cup {"votes.select"} ELSE @]
         existingVote == /\ outcome = "ok"
                         /\ VoteCount(rec.pollId.n, rec.user[1].id) = 1
     IN  req' = [req EXCEPT ![r] =
           IF existingVote THEN Return(rec, AlreadyVoted)
           ELSE [rec EXCEPT !.pc = "insertVote"]]
  /\ UNCHANGED <<polls, votes, nextPollId, adminEnv, started>>

\* The violation's code not told apart from the other errors
VoteInsertErrorGeneric(code) == StoreErrorMessage

\* Handle unique constraint violation (in case of race conditions): the
\* message returned for the insert's error, by its code
VoteInsertError(code) ==
  IF code = "23505" THEN AlreadyVoted ELSE StoreErrorMessage

\* An upsert on (poll_id, user_id): the rows of the pair give way to the new one
UpsertVote(row) ==
  LET same == {v \in BagToSet(votes) :
                 v.poll_id = row.poll_id /\ v.user_id = row.user_id}
  IN  [v \in (BagToSet(votes) \ same) \cup {row} |->
         IF v = row THEN 1 ELSE votes[v]]

\* The votes table after insert([row]): one more row, the others as they were
InsertVote(row) == votes (+) SetToBag({row})

\* supabase.from("votes").insert([...]) and the rest of submitVote
SubmitVoteInsert(r, outcome) ==
  /\ req[r].pc = "insertVote"
  /\ LET rec == [req[r] EXCEPT !.calls = Append(@, "votes.insert"),
                               !.failed = IF outcome = "fail" THEN @ \cup {"votes.insert"} ELSE @]
         row == VoteRow(rec.pollId, rec.user, rec.optionIndex)
     IN  IF outcome = "fail"
         THEN /\ req' = [req EXCEPT ![r] = Return(rec, VoteInsertError("other"))]
              /\ UNCHANGED votes
         ELSE IF UniqueViolation(row)
         THEN /\ req' = [req EXCEPT ![r] = Return(rec, VoteInsertError("23505"))]
              /\ UNCHANGED votes
         ELSE /\ votes' = InsertVote(row)
              /\ req' = [req EXCEPT ![r] = Return([rec EXCEPT !.wrote = TRUE], NoError)]
  /\ UNCHANGED <<polls, nextPollId, adminEnv, started>>

----------------------------------------------------------------------------
(* DELETE POLL *)

\* deletePoll up to its read of the poll: the session
DeletePollBegin(r, pollId, session) ==
  /\ MayBegin(r)
  /\ LET rec == [Idle EXCEPT !.pollId = pollId, !.session = session,
                             !.before = PollRow(pollId),
                             !.calls = <<"auth.getUser">>, !.user = session.user]
     IN  Begun(r, "deletePoll",
           IF session.error # NoError THEN Return(rec, session.error)
           ELSE IF session.user = None
             THEN Return(rec, "You must be logged in to delete a poll.")
           ELSE [rec EXCEPT !.pc = "fetchPoll"])
  /\ UNCHANGED <<polls, votes, nextPollId, adminEnv>>

\* Check if user owns the poll or is admin
DeletePollFetch(r, outcome) ==
  /\ req[r].pc = "fetchPoll"
  /\ LET rec == [req[r] EXCEPT !.calls = Append(@, "polls.select"),
                               !.failed = IF outcome = "fail" THEN {"polls.select"} ELSE {}]
         poll == IF outcome = "fail" THEN None ELSE PollRow(rec.pollId)
         seen == [rec EXCEPT !.poll = poll]
     IN  req' = [req EXCEPT ![r] =
           IF poll = None THEN Return(seen, "Poll not found.")
           ELSE IF poll[1].user_id # rec.user[1].id /\ ~isAdmin(adminEnv, rec.user[1])
             THEN Return(seen, "You can only delete your own polls.")
           ELSE [seen EXCEPT !.pc = "deletePoll"]]
  /\ UNCHANGED <<polls, votes, nextPollId, adminEnv, started>>

\* supabase.from("polls").delete().eq("id", id) and the rest of deletePoll
DeletePollDelete(r, outcome) ==
  /\ req[r].pc = "deletePoll"
  /\ LET rec == [req[r] EXCEPT !.calls = Append(@, "polls.delete"),
                               !.failed = IF outcome = "fail" THEN @ \cup {"polls.delete"} ELSE @]
         n == rec.pollId.n
     IN  IF outcome = "fail"
         THEN /\ req' = [req EXCEPT ![r] = Return(rec, StoreErrorMessage)]
              /\ UNCHANGED polls
         ELSE /\ polls' = [k \in DOMAIN polls \ {n} |-> polls[k]]
              /\ req' = [req EXCEPT ![r] =
                   Return([rec EXCEPT !.wrote = (n \in DOMAIN polls),
                                      !.revalidated = TRUE], NoError)]
  /\ UNCHANGED <<votes, nextPollId, adminEnv, started>>

----------------------------------------------------------------------------
(* UPDATE POLL *)

\* updatePoll up to the update it issues: the presence check, the session
UpdatePollBegin(r, pollId, form, session) ==
  /\ MayBegin(r)
  /\ LET options == FilterBoolean(form.options)
         rec == [Idle EXCEPT !.pollId = pollId, !.form = form,
                             !.session = session, !.before = PollRow(pollId)]
         asked == [rec EXCEPT !.calls = <<"auth.getUser">>, !.user = session.user]
     IN  Begun(r, "updatePoll",
           IF form.question = None \/ form.question = Some(<<>>) \/ Len(options) < 2
             THEN Return(rec, "Please provide a question and at least two options.")
           ELSE IF session.error # NoError THEN Return(asked, session.error)
           ELSE IF session.user = None
             THEN Return(asked, "You must be logged in to update a poll.")
           ELSE [asked EXCEPT !.pc = "updatePoll",
                              !.data = [question |-> form.question[1],
                                        options |-> options]])
  /\ UNCHANGED <<polls, votes, nextPollId, adminEnv>>

\* The filter on the owner left out: .eq("id", pollId) alone
UpdateMatchesAnyOwner(n, uid) == n \in DOMAIN polls

\* The rows the update's filters select: .eq("id", pollId).eq("user_id", user.id)
UpdateMatches(n, uid) == n \in DOMAIN polls /\ polls[n].user_id = uid

\* Only allow updating polls owned by the user:
\* update({ question, options }).eq("id", pollId).eq("user_id", user.id)
UpdatePollUpdate(r, outcome) ==
  /\ req[r].pc = "updatePoll"
  /\ LET rec == [req[r] EXCEPT !.calls = Append(@, "polls.update"),
                               !.failed = IF outcome = "fail" THEN {"polls.update"} ELSE {}]
         n == rec.pollId.n
         matched == UpdateMatches(n, rec.user[1].id)
     IN  IF outcome = "fail"
         THEN /\ req' = [req EXCEPT ![r] = Return(rec, StoreErrorMessage)]
              /\ UNCHANGED polls
         ELSE /\ polls' = IF matched
                          THEN [polls EXCEPT ![n].question = rec.data.question,
                                             ![n].options = rec.data.options]
                          ELSE polls
              /\ req' = [req EXCEPT ![r] =
                   Return([rec EXCEPT !.wrote = matched], NoError)]
  /\ UNCHANGED <<votes, nextPollId, adminEnv, started>>

----------------------------------------------------------------------------
(* The requests the model draws *)

Str1(c) == <<c>>

FormAB == [question |-> Some(Str1("Q")), options |-> <<Str1("A"), Str1("B")>>]
FormABC ==
  [question |-> Some(Str1("Q")), options |-> <<Str1("A"), Str1("B"), Str1("C")>>]
\* a second option left blank
FormABlank == [question |-> Some(Str1("Q")), options |-> <<Str1("A"), <<>>>>]

Forms == {FormAB, FormABC, FormABlank}

PollIds == {Uuid(n) : n \in 1..MaxPolls}
OptionIndexes == {-1, 0, 2}

\* The requests that begin, over the given slots and inputs
Begin(slots, forms, sessions, pollIds, optionIndexes) ==
  \E r \in slots :
    \/ \E form \in forms, session \in sessions : CreatePollBegin(r, form, session)
    \/ \E pollId \in pollIds \cup {NotAUuid}, optionIndex \in optionIndexes,
          session \in sessions : SubmitVoteBegin(r, pollId, optionIndex, session)
    \/ \E pollId \in pollIds, session \in sessions : DeletePollBegin(r, pollId, session)
    \/ \E pollId \in pollIds, form \in forms, session \in sessions :
          UpdatePollBegin(r, pollId, form, session)

\* The steps of the requests in flight
Step(slots) ==
  \E r \in slots :
    \/ \E outcome \in Outcomes : CreatePollInsert(r, outcome)
    \/ \E outcome \in Outcomes : SubmitVoteSelectPoll(r, outcome)
    \/ \E outcome \in Outcomes : SubmitVoteSelectVote(r, outcome)
    \/ \E outcome \in Outcomes : SubmitVoteInsert(r, outcome)
    \/ \E outcome \in Outcomes : DeletePollFetch(r, outcome)
    \/ \E outcome \in Outcomes : DeletePollDelete(r, outcome)
    \/ \E outcome \in Outcomes : UpdatePollUpdate(r, outcome)
    \/ Respond(r)

Stores == {<<>>, <<CreatedPoll(Alice.id, FormABC)>>}

\* Concurrent requests of every kind by two users and anonymous callers, whose
\* session lookups succeed; ADMIN_EMAILS unset
Callers == {SessionOf(Alice), SessionOf(Bob), Anonymous}

Init == InitOver({None}, Stores)

Next ==
  \/ Begin(Reqs, Forms, Callers, PollIds, OptionIndexes)
  \/ Step(Reqs)

Spec == Init /\ [][Next]_vars

\* One request at a time, by every caller, under every value of ADMIN_EMAILS
InitAdmin == InitOver(EnvValues, Stores)

NextAdmin ==
  \/ Begin({1}, Forms, Sessions, PollIds, OptionIndexes)
  \/ Step({1})

SpecAdmin == InitAdmin /\ [][NextAdmin]_vars

----------------------------------------------------------------------------
(* createPoll and updatePoll, one request at a time, over texts and option  *)
(* lists at and beyond every limit of the schema                            *)

Specials == <<"<", ">", "\"", "'", "/">>

Questions ==
  {None, Some(<<>>), Some(Str1(" ")), Some(<<" ", "Q", " ">>), Some(Specials),
   Some(<<"a", "&", "b">>), Some(Repeat("a", QuestionMax)),
   Some(Repeat("a", QuestionMax + 1))}

OptionLists ==
  {<<>>, <<Str1("A")>>, <<Str1("A"), <<>>, <<>>>>, <<Str1("A"), Str1(" ")>>,
   <<Specials, <<"<", "B", ">">>>>,
   <<Str1("A"), Repeat("b", OptionMax)>>, <<Str1("A"), Repeat("b", OptionMax + 1)>>,
   Repeat(Str1("o"), OptionsMax), Repeat(Str1("o"), OptionsMax + 1),
   Repeat(Str1("o"), OptionsMax) \o <<<<>>>>}

TextForms ==
  {[question |-> q, options |-> FormAB.options] : q \in Questions}
  \cup {[question |-> FormAB.question, options |-> o] : o \in OptionLists}
  \cup {[question |-> None, options |-> <<Str1("A")>>],
        [question |-> Some(Repeat("a", QuestionMax + 1)),
         options |-> Repeat(Str1("o"), OptionsMax + 1)]}

InitText == InitOver({None}, Stores)

NextText ==
  \/ \E form \in TextForms, session \in {SessionOf(Alice), Anonymous} :
        CreatePollBegin(1, form, session)
  \/ \E outcome \in Outcomes : CreatePollInsert(1, outcome)
  \/ \E pollId \in PollIds, form \in TextForms, session \in {SessionOf(Alice), Anonymous} :
        UpdatePollBegin(1, pollId, form, session)
  \/ \E outcome \in Outcomes : UpdatePollUpdate(1, outcome)
  \/ Respond(1)

SpecText == InitText /\ [][NextText]_vars

----------------------------------------------------------------------------
(* The middleware: security headers on the responses *)

\* const securityHeaders = { ... }, the policy's directives joined by "; "
securityHeaders ==
  [h \in {"Content-Security-Policy", "X-Frame-Options", "X-Content-Type-Options",
          "Referrer-Policy", "X-XSS-Protection", "Strict-Transport-Security",
          "Permissions-Policy"} |->
     CASE h = "Content-Security-Policy" ->
            "default-src 'self'; script-src 'self' 'unsafe-inline' 'unsafe-eval'; style-src 'self' 'unsafe-inline'; img-src 'self' data: https:; font-src 'self'; connect-src 'self' https://*.supabase.co wss://*.supabase.co; frame-ancestors 'none'"
       [] h = "X-Frame-Options" -> "DENY"
       [] h = "X-Content-Type-Options" -> "nosniff"
       [] h = "Referrer-Policy" -> "strict-origin-when-cross-origin"
       [] h = "X-XSS-Protection" -> "1; mode=block"
       [] h = "Strict-Transport-Security" -> "max-age=31536000; includeSubDomains"
       [] h = "Permissions-Policy" -> "camera=(), microphone=(), geolocation=()"]

StartsWith(s, p) == Len(s) >= Len(p) /\ SubSeq(s, 1, Len(p)) = p
EndsWith(s, p) == Len(s) >= Len(p) /\ SubSeq(s, Len(s) - Len(p) + 1, Len(s)) = p

\* The prefixes and the extensions the matcher's negative lookahead names
ExcludedPrefixes ==
  {<<"_", "n", "e", "x", "t", "/", "s", "t", "a", "t", "i", "c">>,
   <<"_", "n", "e", "x", "t", "/", "i", "m", "a", "g", "e">>,
   <<"l", "o", "g", "i", "n">>, <<"r", "e", "g", "i", "s", "t", "e", "r">>}
ExcludedExtensions ==
  {<<"s", "v", "g">>, <<"p", "n", "g">>, <<"j", "p", "g">>,
   <<"j", "p", "e", "g">>, <<"g", "i", "f">>, <<"w", "e", "b", "p">>}

\* favicon.ico, the dot of the pattern standing for any character
StartsWithFavicon(s) ==
  /\ Len(s) >= 11
  /\ SubSeq(s, 1, 7) = <<"f", "a", "v", "i", "c", "o", "n">>
  /\ SubSeq(s, 9, 11) = <<"i", "c", "o">>

\* config.matcher: "/((?!_next/static|_next/image|favicon.ico|login|register|
\* .*\\.(?:svg|png|jpg|jpeg|gif|webp)$).*)", matched against the whole path
MatcherMatches(path) ==
  /\ StartsWith(path, <<"/">>)
  /\ LET rest == Tail(path)
     IN  /\ \A p \in ExcludedPrefixes : ~StartsWith(rest, p)
         /\ ~StartsWithFavicon(rest)
         /\ \A e \in ExcludedExtensions : ~EndsWith(rest, <<".">> \o e)

\* Apply security headers: response.headers.set(key, value) for every entry
ApplySecurityHeaders(headers) ==
  [h \in DOMAIN headers \cup DOMAIN securityHeaders |->
     IF h \in DOMAIN securityHeaders THEN securityHeaders[h] ELSE headers[h]]

\* A response is served for a path: the middleware runs on the paths the
\* matcher matches, on the response of updateSession, and adds its headers;
\* on the other paths the route's response goes out as it is
Serve(r, path, response) ==
  /\ MayBegin(r)
  /\ Begun(r, "serve",
       [Idle EXCEPT !.pc = "done", !.path = path,
                    !.calls = IF MatcherMatches(path) THEN <<"middleware">> ELSE <<>>,
                    !.headers = IF MatcherMatches(path)
                                THEN ApplySecurityHeaders(response) ELSE response])
  /\ UNCHANGED <<polls, votes, nextPollId, adminEnv>>

\* Request paths: pages, the login and register pages, assets
Paths ==
  {<<"/">>, <<"/", "p", "o", "l", "l", "s">>, <<"/", "p", "o", "l", "l", "s", "/", "l", "o", "g", "i", "n">>,
   <<"/", "l", "o", "g", "i", "n">>, <<"/", "r", "e", "g", "i", "s", "t", "e", "r">>,
   <<"/", "_", "n", "e", "x", "t", "/", "s", "t", "a", "t", "i", "c", "/", "a", ".", "j", "s">>, <<"/", "f", "a", "v", "i", "c", "o", "n", ".", "i", "c", "o">>,
   <<"/", "l", "o", "g", "o", ".", "p", "n", "g">>, <<"/", "a", "p", "i", "/", "x", ".", "j", "s", "o", "n">>}

\* The headers a response may carry before the middleware's are applied:
\* any of these, with values of the step that set them
PresetHeaderNames ==
  {"Set-Cookie", "Location", "X-Frame-Options", "Content-Security-Policy",
   "Referrer-Policy"}

Responses ==
  {[h \in D |-> "preset"] : D \in SUBSET PresetHeaderNames}

InitHeaders == InitOver({None}, {<<>>})

NextHeaders ==
  \/ \E path \in Paths, response \in Responses : Serve(1, path, response)
  \/ Respond(1)

SpecHeaders == InitHeaders /\ [][NextHeaders]_vars

----------------------------------------------------------------------------
(* What the claims speak of *)

\* Request r has returned from the given action
Done(r, op) == req[r].op = op /\ req[r].pc = "done"

\* The identity's email is an entry of the allow-list
OnAllowList(user) ==
  /\ user.email # None
  /\ \E i \in 1..Len(ADMIN_EMAILS(adminEnv)) : ADMIN_EMAILS(adminEnv)[i] = user.email[1]

----------------------------------------------------------------------------
C3_AsClaimed ==
  \A r \in Reqs :
    ( /\ Done(r, "submitVote")
      /\ req[r].before # None
      /\ req[r].optionIndex \notin 0..(Len(req[r].before[1].options) - 1) )
    => /\ req[r].error = "Invalid option selected."
       /\ ~req[r].wrote

(* C3, amended: a submitVote whose poll lookup finds the poll and whose     *)
(* option index is options.length or more is rejected with "Invalid option  *)
(* selected."; one with a negative index is rejected by validation, with    *)
(* the schema's message and before any call; neither inserts a row.         *)
C3_OutOfRangeRejected ==
  \A r \in Reqs :
    Done(r, "submitVote") =>
      /\ ( req[r].poll # None /\ req[r].optionIndex >= Len(req[r].poll[1].options) )
         => req[r].error = "Invalid option selected." /\ ~req[r].wrote
      /\ req[r].optionIndex < 0
         => /\ req[r].error \in {"Invalid poll ID", "Number must be greater than or equal to 0"}
            /\ req[r].calls = <<>>
            /\ ~req[r].wrote

\* Option index 2 on a poll of two options, turned away
C3_Witness ==
  \E r \in Reqs :
    /\ Done(r, "submitVote")
    /\ req[r].poll # None
    /\ req[r].optionIndex = Len(req[r].poll[1].options)
    /\ req[r].error = "Invalid option selected."

(* C4: a poll row leaves the store only by a deletePoll of an authenticated *)
(* identity that owns the poll or whose email is on the allow-list; and a   *)
(* deletePoll by an authenticated identity that is neither, once it has     *)
(* found the poll, returns "You can only delete your own polls." and leaves *)
(* the poll in the store.                                                   *)
C4_RemovedBy(n, r) ==
  /\ req[r].op = "deletePoll"
  /\ req[r].pc = "deletePoll"
  /\ req'[r].pc = "done"
  /\ req[r].pollId = Uuid(n)
  /\ req[r].session.user # None
  /\ \/ req[r].session.user[1].id = polls[n].user_id
     \/ OnAllowList(req[r].session.user[1])

C4_DeniedLeavesPoll ==
  \A r \in Reqs :
    ( /\ Done(r, "deletePoll")
      /\ req[r].session.user # None
      /\ req[r].poll # None
      /\ req[r].session.user[1].id # req[r].poll[1].user_id
      /\ ~OnAllowList(req[r].session.user[1]) )
    => /\ req[r].error = "You can only delete your own polls."
       /\ ~req[r].wrote

C4_DeleteOnlyByOwnerOrAdmin ==
  /\ [][\A n \in DOMAIN polls :
          n \notin DOMAIN polls' => \E r \in Reqs : C4_RemovedBy(n, r)]_vars
  /\ []C4_DeniedLeavesPoll

C6_AnonymousCreateRejected ==
  \A r \in Reqs :
    ( /\ Done(r, "createPoll")
      /\ pollSchemaIssues(req[r].form.question, FilterBoolean(req[r].form.options)) = <<>>
      /\ req[r].session = Anonymous )
    => /\ req[r].error = "You must be logged in to create a poll."
       /\ "polls.insert" \notin {req[r].calls[i] : i \in 1..Len(req[r].calls)}
       /\ ~req[r].wrote

\* An anonymous createPoll with a valid payload has returned
C6_Witness ==
  \E r \in Reqs :
    /\ Done(r, "createPoll")
    /\ req[r].form = FormAB
    /\ req[r].session = Anonymous
    /\ req[r].error = "You must be logged in to create a poll."
    /\ polls = <<>>

\* A text holds none of the five characters raw
NoRawMarkup(text) ==
  \A i \in 1..Len(text) : text[i] \notin {"<", ">", "\"", "'", "/"}

(* C7: in every reachable state no stored poll's question or option text    *)
(* holds a raw <, >, ", ' or /.                                             *)
C7_StoredTextEscaped ==
  \A n \in DOMAIN polls :
    /\ NoRawMarkup(polls[n].question)
    /\ \A i \in 1..Len(polls[n].options) : NoRawMarkup(polls[n].options[i])

(* C8: a createPoll or updatePoll with a question of more than 500          *)
(* characters is rejected and writes or changes no poll row; createPoll's   *)
(* reason is "Question must be less than 500 characters".                   *)
C8_LongQuestionRejected ==
  \A r \in Reqs :
    ( /\ Done(r, "createPoll") \/ Done(r, "updatePoll")
      /\ req[r].form.question # None
      /\ Len(req[r].form.question[1]) > 500 )
    => /\ req[r].error # NoError
       /\ ~req[r].wrote
       /\ Done(r, "createPoll")
          => req[r].error = "Question must be less than 500 characters"

(* C9, as claimed: a createPoll whose submitted option sequence has fewer   *)
(* than 2 or more than 10 entries is rejected and writes no poll row (the   *)
(* claim also names the reason; the rejection alone is stated here).        *)
C9_AsClaimed ==
  \A r \in Reqs :
    ( Done(r, "createPoll") /\ Len(req[r].form.options) \notin 2..10 )
    => /\ req[r].error # NoError
       /\ ~req[r].wrote

(* C9, amended: a createPoll whose submitted options, the empty entries     *)
(* dropped, number fewer than 2 or more than 10 is rejected before any call *)
(* and writes no poll row; the reason is "At least 2 options are required"  *)
(* / "Maximum 10 options allowed" when the question itself is valid.        *)
C9_OptionCountRejected ==
  \A r \in Reqs :
    LET kept == SelectSeq(req[r].form.options, LAMBDA o : o # <<>>)
        q == req[r].form.question
    IN  ( Done(r, "createPoll") /\ Len(kept) \notin 2..10 )
        => /\ req[r].error # NoError
           /\ req[r].calls = <<>>
           /\ ~req[r].wrote
           /\ (q # None /\ Len(q[1]) \in 1..500)
              => req[r].error = IF Len(kept) < 2
                                THEN "At least 2 options are required"
                                ELSE "Maximum 10 options allowed"

\* A createPoll with eleven options has been turned away
C9_Witness ==
  \E r \in Reqs :
    /\ Done(r, "createPoll")
    /\ Len(req[r].form.options) = 11
    /\ \A i \in 1..11 : req[r].form.options[i] # <<>>
    /\ req[r].session = SessionOf(Alice)
    /\ req[r].error = "Maximum 10 options allowed"
    /\ polls = <<>>

(* C10: in every reachable state every stored poll has between 2 and 10     *)
(* options.                                                                 *)
C10_OptionCountInBounds ==
  \A n \in DOMAIN polls : Len(polls[n].options) \in 2..10

(* C11: in every reachable state every stored poll's question and every     *)
(* stored option is non-empty after trimming.                               *)
C11_StoredTextNonEmpty ==
  \A n \in DOMAIN polls :
    /\ Trim(polls[n].question) # <<>>
    /\ \A i \in 1..Len(polls[n].options) : Trim(polls[n].options[i]) # <<>>

(* C12: a stored poll's question and options change only by the update of   *)
(* an updatePoll request whose identity is authenticated and owns the poll; *)
(* and an updatePoll that has returned, made by an anonymous identity or by *)
(* one that does not own the poll (an administrator included), has changed  *)
(* nothing and the poll is as it was.                                       *)
C12_ChangedBy(n, r) ==
  /\ req[r].op = "updatePoll"
  /\ req[r].pc = "updatePoll"
  /\ req'[r].pc = "done"
  /\ req[r].pollId = Uuid(n)
  /\ req[r].session.user # None
  /\ req[r].session.user[1].id = polls[n].user_id

C12_NonOwnerLeavesPoll ==
  \A r \in Reqs :
    ( /\ Done(r, "updatePoll")
      /\ req[r].before # None
      /\ \/ req[r].session.user = None
         \/ req[r].session.user[1].id # req[r].before[1].user_id )
    => /\ ~req[r].wrote
       /\ PollRow(req[r].pollId) = req[r].before

C12_UpdateOnlyByOwner ==
  /\ [][\A n \in DOMAIN polls \cap DOMAIN polls' :
          ( polls'[n].question # polls[n].question
            \/ polls'[n].options # polls[n].options )
          => \E r \in Reqs : C12_ChangedBy(n, r)]_vars
  /\ []C12_NonOwnerLeavesPoll

\* An administrator's updatePoll of another identity's poll has returned
\* error null, and the poll is as it was
C12_Witness ==
  \E r \in Reqs :
    /\ Done(r, "updatePoll")
    /\ req[r].session = SessionOf(Root)
    /\ isAdmin(adminEnv, Root)
    /\ req[r].before # None
    /\ req[r].before[1].user_id = Alice.id
    /\ req[r].form = FormAB
    /\ req[r].calls = <<"auth.getUser", "polls.update">>
    /\ req[r].error = NoError
    /\ PollRow(req[r].pollId) = req[r].before

C14_NegativeIndexParseError ==
  \A r \in Reqs :
    ( Done(r, "submitVote") /\ req[r].pollId.uuid /\ req[r].optionIndex < 0 )
    => /\ req[r].error = "Expected number, received nan"
       /\ req[r].calls = <<>>
       /\ ~req[r].wrote

(* C15: a request of any of the four actions whose session lookup was made  *)
(* and failed with an error returns that error's message and writes neither *)
(* a poll nor a vote; it makes no call after the lookup.                    *)
C15_SessionErrorReturned ==
  \A r \in Reqs :
    ( /\ req[r].pc = "done"
      /\ req[r].op \in {"createPoll", "updatePoll", "deletePoll", "submitVote"}
      /\ req[r].session.error # NoError
      /\ req[r].calls # <<>> )
    => /\ req[r].error = req[r].session.error
       /\ req[r].calls = <<"auth.getUser">>
       /\ ~req[r].wrote

\* The calls of a request that failed: the session lookup when it resolved
\* to an error, and the store calls recorded as failed
FailedCalls(r) ==
  req[r].failed
  \cup (IF req[r].session.error # NoError /\ req[r].calls # <<>>
        THEN {"auth.getUser"} ELSE {})

(* C16: a request of any of the four actions that has returned a non-null   *)
(* error has changed neither polls nor votes, and every call of it that     *)
(* failed is its last call: no call was made after a failed one.            *)
C16_ErrorMeansNoChangeNoLaterStep ==
  \A r \in Reqs :
    ( /\ req[r].pc = "done"
      /\ req[r].op \in {"createPoll", "updatePoll", "deletePoll", "submitVote"}
      /\ req[r].error # NoError )
    => /\ ~req[r].wrote
       /\ ~req[r].revalidated
       /\ \A i \in 1..Len(req[r].calls) :
            req[r].calls[i] \in FailedCalls(r) => i = Len(req[r].calls)

(* C17: a deletePoll by an authenticated identity that does not own the     *)
(* poll it has found goes on to the delete exactly when the identity's      *)
(* email is an entry of the allow-list: the entries of ADMIN_EMAILS when it *)
(* is set, the fallback pair when it is not.                                *)
C17_AdminIffOnAllowList ==
  \A r \in Reqs :
    ( /\ Done(r, "deletePoll")
      /\ req[r].session.user # None
      /\ req[r].poll # None
      /\ req[r].poll[1].user_id # req[r].session.user[1].id )
    => ( "polls.delete" \in {req[r].calls[i] : i \in 1..Len(req[r].calls)}
         <=> OnAllowList(req[r].session.user[1]) )

(* C18: a submitVote by an authenticated identity that had no vote on the   *)
(* poll when it began, whose lookup found the poll with the option index in *)
(* range and none of whose calls failed, returns error null and has added   *)
(* one vote row of that poll, that identity and that index, which is the    *)
(* identity's only row on the poll; unless a vote of the same identity on   *)
(* the poll was inserted while the request ran (the request, having written *)
(* nothing, then finds a row of the identity on the poll).                  *)
C18_FirstVoteAccepted ==
  \A r \in Reqs :
    ( /\ Done(r, "submitVote")
      /\ req[r].session.user # None
      /\ ~req[r].hadVote
      /\ req[r].poll # None
      /\ req[r].optionIndex \in 0..(Len(req[r].poll[1].options) - 1)
      /\ req[r].failed = {}
      /\ ~( ~req[r].wrote
            /\ VoteCount(req[r].pollId.n, req[r].session.user[1].id) > 0 ) )
    => /\ req[r].error = NoError
       /\ req[r].wrote
       /\ CopiesIn([poll_id |-> req[r].pollId.n,
                    user_id |-> Some(req[r].session.user[1].id),
                    option_index |-> req[r].optionIndex], votes) = 1
       /\ VoteCount(req[r].pollId.n, req[r].session.user[1].id) = 1

\* Bob's first vote, for option 0 of Alice's poll, is in the store
C18_Witness ==
  \E r \in Reqs :
    /\ Done(r, "submitVote")
    /\ req[r].session = SessionOf(Bob)
    /\ ~req[r].hadVote
    /\ req[r].calls = <<"auth.getUser", "polls.select", "votes.select", "votes.insert">>
    /\ req[r].failed = {}
    /\ req[r].error = NoError
    /\ votes = SetToBag({[poll_id |-> 1, user_id |-> Some(Bob.id), option_index |-> 0]})

(* C19: every response served for a request path carries the seven security *)
(* headers with the middleware's values (X-Frame-Options DENY and           *)
(* X-Content-Type-Options nosniff among them), whatever headers it carried  *)
(* before.                                                                  *)
C19_EveryResponseHasSecurityHeaders ==
  \A r \in Reqs :
    Done(r, "serve") =>
      /\ \A h \in DOMAIN securityHeaders :
           h \in DOMAIN req[r].headers /\ req[r].headers[h] = securityHeaders[h]
      /\ req[r].headers["X-Frame-Options"] = "DENY"
      /\ req[r].headers["X-Content-Type-Options"] = "nosniff"

\* Request r has run all of submitVote, insert included, and no call failed
C20_PassedPreCheck(r) ==
  /\ Done(r, "submitVote")
  /\ req[r].calls = <<"auth.getUser", "polls.select", "votes.select", "votes.insert">>
  /\ req[r].failed = {}

VoteInsertedBy(r) ==
  /\ req[r].op = "submitVote"
  /\ req[r].pc = "insertVote"
  /\ req'[r].pc = "done"
  /\ req'[r].wrote

(* C21: whenever a vote row is inserted for a poll that is in the store,    *)
(* its option index is in [0, options.length) of that poll as stored at     *)
(* the moment of the insert.                                                *)
C21_InsertedIndexInRange ==
  [][\A r \in Reqs :
       ( VoteInsertedBy(r) /\ req[r].pollId.n \in DOMAIN polls )
       => req[r].optionIndex \in 0..(Len(polls[req[r].pollId.n].options) - 1)]_vars

(* C22: a createPoll or updatePoll whose payload fails pollSchema, and a    *)
(* submitVote whose payload fails voteSchema, makes no call at all (no      *)
(* session lookup, no read or write of the store) and writes nothing.       *)
C22_InvalidPayloadMakesNoCall ==
  \A r \in Reqs :
    ( /\ req[r].pc = "done"
      /\ \/ /\ req[r].op \in {"createPoll", "updatePoll"}
            /\ pollSchemaIssues(req[r].form.question,
                                FilterBoolean(req[r].form.options)) # <<>>
         \/ /\ req[r].op = "submitVote"
            /\ voteSchemaIssues(req[r].pollId, req[r].optionIndex) # <<>> )
    => /\ req[r].calls = <<>>
       /\ req[r].error # NoError
       /\ ~req[r].wrote

(* C23: a request has emitted revalidatePath only if it has returned error  *)
(* null after its write was carried out, and every createPoll, updatePoll   *)
(* and deletePoll that has changed a poll row has emitted it.               *)
C23_RevalidateAfterEveryWrite ==
  \A r \in Reqs :
    req[r].pc = "done" =>
      /\ req[r].revalidated
         => /\ req[r].error = NoError
            /\ req[r].failed = {}
            /\ req[r].op \in {"createPoll", "updatePoll", "deletePoll"}
      /\ ( req[r].op \in {"createPoll", "updatePoll", "deletePoll"} /\ req[r].wrote )
         => req[r].revalidated

C25_Sanitized(r) ==
  LET valid == pollSchemaData(req[r].form.question, FilterBoolean(req[r].form.options))
  IN  {<<valid.question, req[r].data.question>>}
      \cup {<<valid.options[i], req[r].data.options[i]>> : i \in 1..Len(valid.options)}

\* createPoll has sanitized the texts of request r
C25_HasSanitized(r) == req[r].op = "createPoll" /\ req[r].data # NoData

(* C25, as claimed: for a text holding any of the five characters,          *)
(* sanitizing the sanitized text once more gives a different text.          *)
C25_AsClaimed ==
  \A r \in Reqs :
    C25_HasSanitized(r) =>
      \A p \in C25_Sanitized(r) :
        ~NoRawMarkup(p[1]) => sanitizeHtml(p[2]) # p[2]

(* C25, amended: sanitizing a sanitized text once more leaves it as it is,  *)
(* for every text: the sanitized text holds none of the five characters     *)
(* (the ampersand is not among them), so sanitizeHtml is idempotent.        *)
C25_SanitizerIdempotent ==
  \A r \in Reqs :
    C25_HasSanitized(r) =>
      \A p \in C25_Sanitized(r) :
        /\ p[2] = sanitizeHtml(p[1])
        /\ NoRawMarkup(p[2])
        /\ sanitizeHtml(p[2]) = p[2]

\* The question <>"'/ has been sanitized, each character escaped once
C25_Witness ==
  \E r \in Reqs :
    /\ C25_HasSanitized(r)
    /\ req[r].form.question = Some(Specials)
    /\ req[r].data.question =
         <<"&", "l", "t", ";", "&", "g", "t", ";", "&", "q", "u", "o", "t", ";",
           "&", "#", "x", "2", "7", ";", "&", "#", "x", "2", "F", ";">>
    /\ sanitizeHtml(req[r].data.question) = req[r].data.question

\* Request r inserts poll n in this step
C26_CreatedBy(n, r) ==
  /\ req[r].op = "createPoll"
  /\ req[r].pc = "insertPoll"
  /\ req'[r].pc = "done"
  /\ req'[r].pollId = Uuid(n)
  /\ req[r].session.user # None
  /\ polls'[n].user_id = req[r].session.user[1].id

(* C26: a poll row enters the store only by the insert of a createPoll,     *)
(* with the id of that request's authenticated identity as its owner, and   *)
(* no step of any request changes the owner of a poll that stays in the     *)
(* store.                                                                   *)
C26_OwnerIsCreatorForever ==
  [][/\ \A n \in DOMAIN polls' \ DOMAIN polls : \E r \in Reqs : C26_CreatedBy(n, r)
     /\ \A n \in DOMAIN polls \cap DOMAIN polls' :
          polls'[n].user_id = polls[n].user_id]_vars

\* Bob created a poll and has since changed its options; it is still Bob's
C26_Witness ==
  /\ Done(1, "createPoll") /\ req[1].session = SessionOf(Bob) /\ req[1].wrote
  /\ Done(2, "updatePoll") /\ req[2].session = SessionOf(Bob) /\ req[2].wrote
  /\ req[1].form = FormABC /\ req[2].form = FormAB
  /\ polls = <<[user_id |-> Bob.id, question |-> Str1("Q"), options |-> FormAB.options]>>

(* C27: no step of any request removes or changes a vote row: every row of  *)
(* the store is in it after the step, as many times as before.              *)
C27_VotesOnlyInserted ==
  [][\A v \in BagToSet(votes) : CopiesIn(v, votes') >= CopiesIn(v, votes)]_vars

\* Bob's vote on Alice's poll is in the store after Alice deleted the poll
C27_Witness ==
  /\ \E r \in Reqs : Done(r, "submitVote") /\ req[r].session = SessionOf(Bob) /\ req[r].wrote
  /\ \E r \in Reqs : Done(r, "deletePoll") /\ req[r].session = SessionOf(Alice) /\ req[r].wrote
  /\ polls = <<>>
  /\ votes = SetToBag({[poll_id |-> 1, user_id |-> Some(Bob.id), option_index |-> 2]})

(* C28: whenever a vote row is inserted, the poll it refers to is in the    *)
(* store at the moment of the insert.                                       *)
C28_InsertedForExistingPoll ==
  [][\A r \in Reqs : VoteInsertedBy(r) => req[r].pollId.n \in DOMAIN polls]_vars

(* C29: a deletePoll by an authenticated identity that has no email and     *)
(* does not own the poll it has found is refused with "You can only delete  *)
(* your own polls." and issues no delete, whatever ADMIN_EMAILS is.         *)
C29_NoEmailNeverAdmin ==
  \A r \in Reqs :
    ( /\ Done(r, "deletePoll")
      /\ req[r].session.user # None
      /\ req[r].session.user[1].email = None
      /\ req[r].poll # None
      /\ req[r].poll[1].user_id # req[r].session.user[1].id )
    => /\ req[r].error = "You can only delete your own polls."
       /\ req[r].calls = <<"auth.getUser", "polls.select">>
       /\ ~req[r].wrote

====
